---- MODULE Spec2Model ----
(***************************************************************************)
(* Model of the Relion 3.1 star-file transcoder of scipion-em-relion:      *)
(*   src/relion/convert/convert31.py     (Writer, Reader)                  *)
(*   src/relion/convert/convert_utils.py (convertBinaryFiles, locations)   *)
(*                                                                         *)
(* Numbers.  Matrix entries and shifts are exact elements of Q(sqrt 3):    *)
(* the pair <<a, b>> stands for (a + b*sqrt(3)) / 2, so that the sines and *)
(* cosines of all multiples of 30 degrees are representable.  Angles in    *)
(* radians are integers counting units of pi/6; angles in degrees are      *)
(* plain integers.  Products are exact whenever one factor is an integer,  *)
(* which is the case for every input the specifications draw (in-plane     *)
(* rotations by multiples of 30 degrees, 3-D rotations by multiples of 90  *)
(* degrees, integer shifts and pixel sizes).                               *)
(***************************************************************************)
EXTENDS Integers, Sequences, FiniteSets, TLC

VARIABLES
    \* ---- transform codec (Writer._align*ToRow / Reader.__setParticleTransform*)
    cpc,        \* "start" | "written" | "read"
    cMode,      \* "2D" | "Proj"
    cMatrix,    \* the particle's transform matrix handed to the writer
    cWPs,       \* Writer._pixelSize
    cRPs,       \* Reader._pixelSize
    cRow,       \* the row produced by the writer
    cOut,       \* the matrix the reader sets on the particle
    \* ---- Writer (one write pass)
    wpc,        \* "idle" | "rows" | "flush" | "done" | "error"
    wIn,        \* the call's arguments: record set, set acquisition, kwargs
    wSelf,      \* the Writer instance's fields
    wRow,       \* partRow / micRow, the reused OrderedDict
    wTables,    \* the in-memory tables: main columns, main rows, optics columns
    wFile,      \* what has been written to the star file, in order
    wConv,      \* the calls of self._ih.convert, in order
    wI,         \* number of records the streaming loop has processed
    \* ---- Reader (one instance, read passes one after the other)
    rpc,        \* "new" | "rows" | "done" | "error"
    rPass,      \* number of readSetOfParticles calls begun
    rIn,        \* the call's arguments: the star file's blocks, alignType
    rSelf,      \* the Reader instance's fields, the bound transform handler
    rParticle,  \* the particle object every row is read into
    rOut,       \* partSet: the particles appended by the current pass
    rUsed,      \* the transform handler applied to each row of the pass
    rI,         \* number of rows the pass has read
    \* ---- convertBinaryFiles (calls one after the other on one file set)
    bpc,        \* "ready" | "loop" | "returned"
    bCall,      \* number of calls begun
    bIn,        \* the call's arguments, the order the file set is visited in
    bMode,      \* the mapFunc chosen: "convert" | "replaceRoot" | "link" | "none"
    bRoot,      \* rootDir of replaceRoot
    bDict,      \* filesDict, in insertion order: pairs <<fn, newFn>>
    bI,         \* number of files the loop has visited
    bFs,        \* the output file system: path -> what was created there
    bLog        \* per finished call: the mapping returned, what it created

codecVars == <<cpc, cMode, cMatrix, cWPs, cRPs, cRow, cOut>>
writerVars == <<wpc, wIn, wSelf, wRow, wTables, wFile, wConv, wI>>
readerVars == <<rpc, rPass, rIn, rSelf, rParticle, rOut, rUsed, rI>>
binVars == <<bpc, bCall, bIn, bMode, bRoot, bDict, bI, bFs, bLog>>

vars == <<codecVars, writerVars, readerVars, binVars>>

(***************************************************************************)
(* Exact arithmetic in Q(sqrt 3), halves.                                  *)
(***************************************************************************)
NInt(n) == <<2 * n, 0>>
NZero == NInt(0)
NOne == NInt(1)
NAdd(x, y) == <<x[1] + y[1], x[2] + y[2]>>
NNeg(x) == <<-x[1], -x[2]>>
NSub(x, y) == NAdd(x, NNeg(y))
NMul(x, y) == <<(x[1] * y[1] + 3 * x[2] * y[2]) \div 2,
                (x[1] * y[2] + x[2] * y[1]) \div 2>>
\* scalar * pixelSize and scalar * (1 / pixelSize), pixel size an integer
NScale(x, n) == <<x[1] * n, x[2] * n>>
NUnscale(x, n) == <<x[1] \div n, x[2] \div n>>

\* radians are counted in units of pi/6
UnitsPerTurn == 6 + 6
DegPerUnit == 180 \div 6

CosTable == <<NInt(1), <<0, 1>>, <<1, 0>>, NZero, <<-1, 0>>, <<0, -1>>,
              NInt(-1), <<0, -1>>, <<-1, 0>>, NZero, <<1, 0>>, <<0, 1>>>>
Cos(k) == CosTable[(k % UnitsPerTurn) + 1]
Sin(k) == Cos(k - 3)

\* math.atan2(y, x) for a point of the unit circle, result in (-pi, pi]
Atan2(y, x) == CHOOSE k \in -5..6 : Sin(k) = y /\ Cos(k) = x

\* math.sqrt of the squared sine of the tilt angle
Sqrt(x) == CHOOSE r \in {NZero, <<1, 0>>, <<0, 1>>, NOne} : NMul(r, r) = x

\* np.rad2deg / np.deg2rad
Rad2deg(r) == DegPerUnit * r
Deg2rad(d) == d \div DegPerUnit

(***************************************************************************)
(* 4x4 homogeneous matrices, indexed from 0 as in numpy.                   *)
(***************************************************************************)
Idx == 0..3
Identity4 == [r \in Idx |-> [c \in Idx |-> IF r = c THEN NOne ELSE NZero]]

\* tfs.translation_from_matrix: the last column's first three entries
translation_from_matrix(M) == <<M[0][3], M[1][3], M[2][3]>>

\* M[:3, 3] = t
SetTranslation(M, t) ==
    [r \in Idx |-> [c \in Idx |->
        IF c = 3 /\ r < 3 THEN t[r + 1] ELSE M[r][c]]]

\* tfs.euler_matrix(ai, aj, ak, 'szyz'): firstaxis 2, parity 1, repetition 1,
\* static frame, so i = 2, j = 1, k = 0 and the three angles are negated.
euler_matrix(a0, a1, a2) ==
    LET ai == -a0
        aj == -a1
        ak == -a2
        si == Sin(ai)
        sj == Sin(aj)
        sk == Sin(ak)
        ci == Cos(ai)
        cj == Cos(aj)
        ck == Cos(ak)
        cc == NMul(ci, ck)
        cs == NMul(ci, sk)
        sc == NMul(si, ck)
        ss == NMul(si, sk)
        E == [p \in {<<2, 2>>, <<2, 1>>, <<2, 0>>, <<1, 2>>, <<1, 1>>,
                     <<1, 0>>, <<0, 2>>, <<0, 1>>, <<0, 0>>} |->
                CASE p = <<2, 2>> -> cj
                  [] p = <<2, 1>> -> NMul(sj, si)
                  [] p = <<2, 0>> -> NMul(sj, ci)
                  [] p = <<1, 2>> -> NMul(sj, sk)
                  [] p = <<1, 1>> -> NAdd(NNeg(NMul(cj, ss)), cc)
                  [] p = <<1, 0>> -> NSub(NNeg(NMul(cj, cs)), sc)
                  [] p = <<0, 2>> -> NNeg(NMul(sj, ck))
                  [] p = <<0, 1>> -> NAdd(NMul(cj, sc), cs)
                  [] p = <<0, 0>> -> NSub(NMul(cj, cc), ss)]
    IN  [r \in Idx |-> [c \in Idx |->
            IF r < 3 /\ c < 3 THEN E[<<r, c>>] ELSE Identity4[r][c]]]

\* tfs.euler_from_matrix(M, 'szyz') once sy is known; angles in radians
\* (units of pi/6)
EulerFromSy(M, sy) ==
    <<-(IF sy # NZero THEN Atan2(M[2][1], M[2][0])
                      ELSE Atan2(NNeg(M[1][0]), M[1][1])),
      -Atan2(sy, M[2][2]),
      -(IF sy # NZero THEN Atan2(M[1][2], NNeg(M[0][2])) ELSE 0)>>

euler_from_matrix(M) ==
    EulerFromSy(M, Sqrt(NAdd(NMul(M[2][1], M[2][1]), NMul(M[2][0], M[2][0]))))

\* np.linalg.inv on a rigid transform [R t; 0 1]: [R^T  -R^T t; 0 1]
MatInv(M) ==
    [r \in Idx |-> [c \in Idx |->
        IF r = 3 THEN Identity4[r][c]
        ELSE IF c < 3 THEN M[c][r]
        ELSE NNeg(NAdd(NAdd(NMul(M[0][r], M[0][3]), NMul(M[1][r], M[1][3])),
                       NMul(M[2][r], M[2][3])))]]

(***************************************************************************)
(* Writer: alignment to row.                                               *)
(***************************************************************************)
\* shifts *= self._pixelSize
Scale3(t, ps) == <<NScale(t[1], ps), NScale(t[2], ps), NScale(t[3], ps)>>
Neg3(t) == <<NNeg(t[1]), NNeg(t[2]), NNeg(t[3])>>
\* -np.rad2deg(angles)
NegRad2deg3(e) == <<-Rad2deg(e[1]), -Rad2deg(e[2]), -Rad2deg(e[3])>>

\* the labels _align2DToRow sets from the scaled shifts and the angles
\* (lines 157-158)
Row2DMutNegPsi(shifts, angles) ==
    [rlnOriginXAngst |-> shifts[1],
     rlnOriginYAngst |-> shifts[2],
     rlnAnglePsi |-> angles[1] + angles[3]]

Row2D(shifts, angles) ==
    [rlnOriginXAngst |-> shifts[1],
     rlnOriginYAngst |-> shifts[2],
     rlnAnglePsi |-> -(angles[1] + angles[3])]

\* Writer._align2DToRow(alignment, row): the labels it sets
Align2DToRow(matrix, ps) ==
    Row2D(Scale3(translation_from_matrix(matrix), ps),
          NegRad2deg3(euler_from_matrix(matrix)))

\* the labels _alignProjToRow sets (lines 165-166)
RowProj(shifts, angles) ==
    [rlnOriginXAngst |-> shifts[1],
     rlnOriginYAngst |-> shifts[2],
     rlnOriginZAngst |-> shifts[3],
     rlnAngleRot |-> angles[1],
     rlnAngleTilt |-> angles[2],
     rlnAnglePsi |-> angles[3]]

\* _alignProjToRow after the inversion of the matrix (lines 162-166)
AlignInvToRow(matrix, ps) ==
    RowProj(Scale3(Neg3(translation_from_matrix(matrix)), ps),
            NegRad2deg3(euler_from_matrix(matrix)))

\* Writer._alignProjToRow(alignment, row): the labels it sets
AlignProjToRow(mat, ps) == AlignInvToRow(MatInv(mat), ps)

(***************************************************************************)
(* Reader: row to transform.                                               *)
(***************************************************************************)
\* _get(label): float(getattr(row, label, 0.))
RowGetNum(row, label) == IF label \in DOMAIN row THEN row[label] ELSE NZero
RowGetDeg(row, label) == IF label \in DOMAIN row THEN row[label] ELSE 0

\* -np.deg2rad(angles)
NegDeg2rad3(an) == <<-Deg2rad(an[1]), -Deg2rad(an[2]), -Deg2rad(an[3])>>

EulerMatrix3(rad) == euler_matrix(rad[1], rad[2], rad[3])

\* the end of __setParticleTransform2D (lines 489-492): the instance's arrays
\* as left by the call, and the matrix set on the particle
Transform2DFrom(an, sh) ==
    [angles |-> an, shifts |-> sh,
     matrix |-> SetTranslation(EulerMatrix3(NegDeg2rad3(an)), sh)]

\* Reader.__setParticleTransform2D; angles and shifts are the instance's
\* arrays, of which it overwrites shifts[0], shifts[1] and angles[2]
SetParticleTransform2DMutKeepSign(row, angles, shifts, ps) ==
    Transform2DFrom(
        <<angles[1], angles[2], RowGetDeg(row, "rlnAnglePsi")>>,
        <<NUnscale(RowGetNum(row, "rlnOriginXAngst"), ps),
          NUnscale(RowGetNum(row, "rlnOriginYAngst"), ps),
          shifts[3]>>)

SetParticleTransform2D(row, angles, shifts, ps) ==
    Transform2DFrom(
        <<angles[1], angles[2], -RowGetDeg(row, "rlnAnglePsi")>>,
        <<NUnscale(RowGetNum(row, "rlnOriginXAngst"), ps),
          NUnscale(RowGetNum(row, "rlnOriginYAngst"), ps),
          shifts[3]>>)

\* the end of __setParticleTransformProj (lines 510-517)
TransformProjFrom(an, sh) ==
    [angles |-> an, shifts |-> sh,
     matrix |-> MatInv(SetTranslation(EulerMatrix3(NegDeg2rad3(an)), Neg3(sh)))]

\* Reader.__setParticleTransformProj
SetParticleTransformProj(row, angles, shifts, ps) ==
    TransformProjFrom(
        <<RowGetDeg(row, "rlnAngleRot"), RowGetDeg(row, "rlnAngleTilt"),
          RowGetDeg(row, "rlnAnglePsi")>>,
        <<NUnscale(RowGetNum(row, "rlnOriginXAngst"), ps),
          NUnscale(RowGetNum(row, "rlnOriginYAngst"), ps),
          NUnscale(RowGetNum(row, "rlnOriginZAngst"), ps)>>)

\* np.zeros(3), for Reader._angles and Reader._shifts
ZeroAngles == <<0, 0, 0>>
ZeroShifts == <<NZero, NZero, NZero>>

(***************************************************************************)
(* OrderedDict: the keys in insertion order and the values by key.         *)
(***************************************************************************)
ODEmpty == [keys |-> <<>>, val |-> <<>>]
ODHas(d, k) == k \in DOMAIN d.val
ODSet(d, k, v) ==
    [keys |-> IF ODHas(d, k) THEN d.keys ELSE Append(d.keys, k),
     val |-> [x \in (DOMAIN d.val) \cup {k} |-> IF x = k THEN v ELSE d.val[x]]]
ODValues(d) == [i \in 1..Len(d.keys) |-> d.val[d.keys[i]]]

\* an optional value: <<>> is None, <<v>> is v
None == <<>>
Some(v) == <<v>>

(***************************************************************************)
(* convert_utils.locationToRelion                                          *)
(***************************************************************************)
NO_INDEX == 0

RECURSIVE Zeros(_)
Zeros(n) == IF n <= 0 THEN "" ELSE "0" \o Zeros(n - 1)

\* "%06d" % index, for index >= 0
Pad6(index) == Zeros(6 - Len(ToString(index))) \o ToString(index)

locationToRelion(index, filename) ==
    IF index # NO_INDEX THEN Pad6(index) \o "@" \o filename ELSE filename

(***************************************************************************)
(* Writer._setAttributes                                                   *)
(***************************************************************************)
\* '%s' % aList: the repr of a list of strings
RECURSIVE PyListItems(_)
PyListItems(labels) ==
    IF Len(labels) = 0 THEN ""
    ELSE IF Len(labels) = 1 THEN "'" \o labels[1] \o "'"
    ELSE "'" \o labels[1] \o "', " \o PyListItems(Tail(labels))
PyListRepr(labels) == "[" \o PyListItems(labels) \o "]"

\* one iteration of the loop (lines 142-144); objAttrs are the object's
\* attributes by name.  The label probed on the object is built from the
\* whole list `attributes` (line 142), not from `attr`.
SetAttribute(objAttrs, row, attr, attrLabel) ==
    IF attrLabel \in DOMAIN objAttrs
    THEN ODSet(row, attr, objAttrs[attrLabel])
    ELSE row

RECURSIVE SetAttributesFrom(_, _, _, _)
SetAttributesFrom(objAttrs, row, attributes, i) ==
    IF i > Len(attributes) THEN row
    ELSE SetAttributesFrom(objAttrs,
            SetAttribute(objAttrs, row, attributes[i],
                         "_" \o PyListRepr(attributes)),
            attributes, i + 1)

SetAttributes(objAttrs, row, attributes) ==
    SetAttributesFrom(objAttrs, row, attributes, 1)

(***************************************************************************)
(* Writer._getOpticsGroupNumber                                            *)
(***************************************************************************)
Dimensionality == 2

\* x.get() or 0.
OrZero(opt) == IF opt = None THEN 0 ELSE opt[1]

\* The entry stored for a new optics group (lines 118-134)
OpticsEntry(self, img, ogName, ogNumber) ==
    (("rlnOpticsGroupName" :> ogName)
     @@ ("rlnOpticsGroup" :> ogNumber)
     @@ ("rlnMicrographOriginalPixelSize" :> img.ps)
     @@ (self.imgLabelPixelSize :> img.ps)
     @@ ("rlnVoltage" :> img.acq.voltage)
     @@ ("rlnSphericalAberration" :> img.acq.cs)
     @@ ("rlnAmplitudeContrast" :> img.acq.contrast)
     @@ ("rlnBeamTiltX" :> OrZero(img.acq.beamTiltX))
     @@ ("rlnBeamTiltY" :> OrZero(img.acq.beamTiltY))
     @@ ("rlnImageDimensionality" :> Dimensionality)
     @@ ("rlnImageSize" :> self.imageSize))
    @@ (IF img.acq.mtfFile # None
        THEN ("rlnMtfFileName" :> img.acq.mtfFile[1])
        ELSE <<>>)

\* acq.opticsGroupName.get() or 'DefaultOpticsGroup'
OgNameMutVoltage(img) ==
    (IF img.acq.name = "" THEN "DefaultOpticsGroup" ELSE img.acq.name)
        \o "@" \o ToString(img.acq.voltage)

OgName(img) ==
    IF img.acq.name = "" THEN "DefaultOpticsGroup" ELSE img.acq.name

\* lines 116-138 for the group name ogName: the updated self._optics and the
\* number returned
OpticsGroupForMutLastWins(self, img, ogName) ==
    IF ~ODHas(self.optics, ogName)
    THEN [optics |-> ODSet(self.optics, ogName,
                OpticsEntry(self, img, ogName, Len(self.optics.keys) + 1)),
          ogNumber |-> Len(self.optics.keys) + 1]
    ELSE [optics |-> ODSet(self.optics, ogName,
                OpticsEntry(self, img, ogName,
                            self.optics.val[ogName]["rlnOpticsGroup"])),
          ogNumber |-> self.optics.val[ogName]["rlnOpticsGroup"]]

OpticsGroupFor(self, img, ogName) ==
    IF ~ODHas(self.optics, ogName)
    THEN [optics |-> ODSet(self.optics, ogName,
                OpticsEntry(self, img, ogName, Len(self.optics.keys) + 1)),
          ogNumber |-> Len(self.optics.keys) + 1]
    ELSE [optics |-> self.optics,
          ogNumber |-> self.optics.val[ogName]["rlnOpticsGroup"]]

\* _getOpticsGroupNumber(img)
GetOpticsGroupNumber(self, img) == OpticsGroupFor(self, img, OgName(img))

(***************************************************************************)
(* Writer._micToRow                                                        *)
(***************************************************************************)
\* WriterBase._micToRow: the base class sets the image id
WriterBase_micToRow(mic, row) == ODSet(row, "rlnImageId", mic.id)

\* WriterBase._convert(mic): the path passes through when nothing is converted
WriterBase_convert(mic) == mic.loc.fn

\* row['rlnOpticsGroup'] = self._getOpticsGroupNumber(img)
WithOpticsGroup(row, og) ==
    [row |-> ODSet(row, "rlnOpticsGroup", og.ogNumber), optics |-> og.optics]

\* _micToRow(mic, row): the updated row and self._optics
MicToRow(self, mic, row) ==
    WithOpticsGroup(
        SetAttributes(mic.attrs, WriterBase_micToRow(mic, row), self.extraLabels),
        GetOpticsGroupNumber(self, mic))

(***************************************************************************)
(* Writer._partToRow                                                       *)
(***************************************************************************)
\* micName.replace(" ", "")
RECURSIVE RemoveSpaces(_)
RemoveSpaces(s) ==
    IF Len(s) = 0 THEN ""
    ELSE (IF SubSeq(s, 1, 1) = " " THEN "" ELSE SubSeq(s, 1, 1))
         \o RemoveSpaces(SubSeq(s, 2, Len(s)))

\* row[...] = ... of _align2DToRow and _alignProjToRow, in their order
Put2D(row, a) ==
    ODSet(ODSet(ODSet(row, "rlnOriginXAngst", a.rlnOriginXAngst),
                "rlnOriginYAngst", a.rlnOriginYAngst),
          "rlnAnglePsi", a.rlnAnglePsi)

PutProj(row, a) ==
    ODSet(ODSet(ODSet(ODSet(ODSet(ODSet(row,
        "rlnOriginXAngst", a.rlnOriginXAngst),
        "rlnOriginYAngst", a.rlnOriginYAngst),
        "rlnOriginZAngst", a.rlnOriginZAngst),
        "rlnAngleRot", a.rlnAngleRot),
        "rlnAngleTilt", a.rlnAngleTilt),
        "rlnAnglePsi", a.rlnAnglePsi)

\* self._setAlign(part.getTransform(), row), when self._setAlign is set
SetAlign(self, part, row) ==
    IF self.setAlign = "align2D"
    THEN Put2D(row, Align2DToRow(part.transform, self.pixelSize))
    ELSE IF self.setAlign = "alignProj"
    THEN PutProj(row, AlignProjToRow(part.transform, self.pixelSize))
    ELSE row

CoordAttributes == <<"rlnClassNumber", "rlnAutopickFigureOfMerit", "rlnAnglePsi">>

\* lines 181-186: the micrograph name of the coordinate
MicNameToRow(coord, row) ==
    IF coord.micName # ""
    THEN ODSet(row, "rlnMicrographName", RemoveSpaces(coord.micName))
    ELSE IF coord.micId # 0
    THEN ODSet(row, "rlnMicrographName", ToString(coord.micId))
    ELSE row

\* the coordinate block of _partToRow (lines 172-186)
CoordToRow(part, row) ==
    IF part.coord = None THEN row
    ELSE MicNameToRow(part.coord[1],
            SetAttributes(part.coord[1].attrs,
                ODSet(ODSet(row, "rlnCoordinateX", part.coord[1].x),
                      "rlnCoordinateY", part.coord[1].y),
                CoordAttributes))

\* lines 188-198: the location written as rlnImageName, and the conversion
\* into the output stack
LocationToRow(self, part, row) ==
    IF self.outputStack # None
    THEN ODSet(ODSet(row, "rlnOriginalParticleName",
                     locationToRelion(part.loc.index, part.loc.fn)),
               "rlnImageName",
               locationToRelion(self.counter, self.relOutputStack))
    ELSE ODSet(row, "rlnImageName",
               locationToRelion(part.loc.index, part.loc.fn))

ConversionsMutSeed(self, part, conv) ==
    IF self.outputStack # None
    THEN Append(conv, [part |-> part.id, index |-> self.counter,
                       stack |-> self.outputStack[1]])
    ELSE conv

Conversions(self, part, conv) ==
    IF self.outputStack # None /\ self.counter > 0
    THEN Append(conv, [part |-> part.id, index |-> self.counter,
                       stack |-> self.outputStack[1]])
    ELSE conv

\* _partToRow(part, row): the updated row, self._optics, self._counter and
\* the conversions done.  The particles of the model carry no CTF and no
\* random subset, and outputDir is None, so lines 196, 201 and 205 do not run.
PartToRowEnd(self, part, row, conv, og) ==
    [row |-> ODSet(row, "rlnOpticsGroup", og.ogNumber),
     optics |-> og.optics,
     counter |-> self.counter + 1,
     conv |-> Conversions(self, part, conv)]

PartToRow(self, part, row, conv) ==
    PartToRowEnd(self, part,
        SetAttributes(part.attrs,
            SetAlign(self, part,
                LocationToRow(self, part,
                    CoordToRow(part, ODSet(row, "rlnImageId", part.id)))),
            self.extraLabels),
        conv, GetOpticsGroupNumber(self, part))

(***************************************************************************)
(* Tables and the star file.                                               *)
(***************************************************************************)
\* the labels of an optics entry in the order of the dict literal (118-134)
OpticsLabelOrder(self) ==
    <<"rlnOpticsGroupName", "rlnOpticsGroup", "rlnMicrographOriginalPixelSize",
      self.imgLabelPixelSize, "rlnVoltage", "rlnSphericalAberration",
      "rlnAmplitudeContrast", "rlnBeamTiltX", "rlnBeamTiltY",
      "rlnImageDimensionality", "rlnImageSize", "rlnMtfFileName">>

\* WriterBase._createTableFromDict(list(self._optics.values())[0]): the columns
OpticsColumns(self) ==
    LET IsIn(l) == l \in DOMAIN self.optics.val[self.optics.keys[1]]
    IN  SelectSeq(OpticsLabelOrder(self), IsIn)

\* Table.addRow(**values): accepted when the labels are exactly the columns
AddRowOk(cols, values) == DOMAIN values = {cols[i] : i \in 1..Len(cols)}

TableRow(cols, values) == [i \in 1..Len(cols) |-> values[cols[i]]]

\* what is written to the file: a block header with its columns, or a row
HeaderLine(name, cols) == [kind |-> "header", table |-> name, cells |-> cols]
RowLine(name, vals) == [kind |-> "row", table |-> name, cells |-> vals]

\* the optics entries as table rows, in the map's order
OpticsRows(self, cols) ==
    [i \in 1..Len(self.optics.keys) |->
        RowLine("optics", TableRow(cols, self.optics.val[self.optics.keys[i]]))]

OpticsFlushOk(self, cols) ==
    \A i \in 1..Len(self.optics.keys) :
        AddRowOk(cols, self.optics.val[self.optics.keys[i]])
(***************************************************************************)
(* Writer: the write passes.                                               *)
(***************************************************************************)
\* the Writer's fields before a pass
WriterFields ==
    [imgLabelName |-> "", imgLabelPixelSize |-> "", extraLabels |-> <<>>,
     optics |-> ODEmpty, imageSize |-> 0, pixelSize |-> 1, counter |-> 0,
     setAlign |-> "None", outputStack |-> None, relOutputStack |-> ""]

NoTables == [opticsCols |-> <<>>, mainCols |-> <<>>, mainRows |-> <<>>]

ParticleExtraLabels == <<"rlnParticleSelectZScore", "rlnMovieFrameNumber">>

\* the handler chosen for alignType (lines 248-262); "raise" is an exception
SetAlignFor(alignType) ==
    CASE alignType = "ALIGN_2D" -> "align2D"
      [] alignType = "ALIGN_PROJ" -> "alignProj"
      [] alignType = "ALIGN_NONE" -> "None"
      [] OTHER -> "raise"

\* firstPart.getSamplingRate() or 1.0
PixelSizeOf(set) == IF set[1].ps = 0 THEN 1 ELSE set[1].ps

\* the fields writeSetOfParticles sets before the first _partToRow
\* (lines 222-272)
PartFields(self, in) ==
    [self EXCEPT
        !.imgLabelPixelSize = "rlnImagePixelSize",
        !.outputStack = in.outputStack,
        !.relOutputStack = IF in.outputStack = None THEN @ ELSE in.outputStack[1],
        !.optics = ODEmpty,
        !.setAlign = SetAlignFor(in.alignType),
        !.extraLabels = in.extraLabels \o ParticleExtraLabels,
        !.imageSize = in.set[1].xdim,
        !.pixelSize = PixelSizeOf(in.set),
        !.counter = 0]

\* lines 279-290: the tables created from the first row and the header written
PartSeeded(self1, r) ==
    /\ wSelf' = self1
    /\ wRow' = r.row
    /\ wTables' = [opticsCols |-> OpticsColumns(self1),
                   mainCols |-> r.row.keys,
                   mainRows |-> <<ODValues(r.row)>>]
    /\ wFile' = <<HeaderLine("particles", r.row.keys)>>
    /\ wConv' = r.conv
    /\ wI' = 0
    /\ wpc' = "rows"

PartSeed(self0, r) ==
    PartSeeded([self0 EXCEPT !.optics = r.optics, !.counter = r.counter], r)

\* lines 273-274: the first particle, given the set's acquisition, seeds the row
PartFirst(self0, in) ==
    PartSeed(self0,
             PartToRow(self0, [in.set[1] EXCEPT !.acq = in.setAcq], ODEmpty, <<>>))

\* writeSetOfParticles up to the written header (lines 219-290)
PartBegin ==
    /\ wpc = "idle"
    /\ wIn.kind = "particles"
    /\ IF SetAlignFor(wIn.alignType) = "raise"
       THEN /\ wpc' = "error"
            /\ UNCHANGED <<wSelf, wRow, wTables, wFile, wConv, wI>>
       ELSE PartFirst(PartFields(wSelf, wIn), wIn)
    /\ UNCHANGED <<wIn, codecVars, readerVars, binVars>>

PartRowDone(r) ==
    /\ wSelf' = [wSelf EXCEPT !.optics = r.optics, !.counter = r.counter]
    /\ wRow' = r.row
    /\ wConv' = r.conv
    /\ wFile' = Append(wFile, RowLine("particles", ODValues(r.row)))

\* one iteration of `for part in partsSet` (lines 293-297)
PartRow ==
    /\ wpc = "rows"
    /\ wIn.kind = "particles"
    /\ wI < Len(wIn.set)
    /\ PartRowDone(PartToRow(wSelf, wIn.set[wI + 1], wRow, wConv))
    /\ wI' = wI + 1
    /\ UNCHANGED <<wpc, wIn, wTables, codecVars, readerVars, binVars>>

\* the optics table written at the file's position, after what the pass has
\* written so far (lines 300-304)
FileWithOpticsMutAhead(file, optics) == optics \o file

FileWithOptics(file, optics) == file \o optics

PartFinish ==
    /\ wpc = "rows"
    /\ wIn.kind = "particles"
    /\ wI = Len(wIn.set)
    /\ IF OpticsFlushOk(wSelf, wTables.opticsCols)
       THEN /\ wFile' = FileWithOptics(wFile,
                            <<HeaderLine("optics", wTables.opticsCols)>>
                            \o OpticsRows(wSelf, wTables.opticsCols))
            /\ wpc' = "done"
       ELSE /\ wpc' = "error"
            /\ UNCHANGED wFile
    /\ UNCHANGED <<wIn, wSelf, wRow, wTables, wConv, wI, codecVars, readerVars, binVars>>

\* the fields _writeSetOfMoviesOrMics sets before the first _micToRow
\* (lines 67-78)
MicFields(self, in) ==
    [self EXCEPT
        !.imgLabelName = in.imgLabelName,
        !.imgLabelPixelSize = "rlnMicrographPixelSize",
        !.extraLabels = in.extraLabels,
        !.optics = ODEmpty,
        !.imageSize = in.set[1].xdim]

MicSeeded(self1, r) ==
    /\ wSelf' = self1
    /\ wRow' = r.row
    /\ wTables' = [opticsCols |-> OpticsColumns(self1),
                   mainCols |-> r.row.keys,
                   mainRows |-> <<>>]

MicSeed(self0, r) == MicSeeded([self0 EXCEPT !.optics = r.optics], r)

\* _writeSetOfMoviesOrMics up to the created tables (lines 59-84)
MicBegin ==
    /\ wpc = "idle"
    /\ wIn.kind \in {"movies", "micrographs"}
    /\ MicSeed(MicFields(wSelf, wIn),
               MicToRow(MicFields(wSelf, wIn), wIn.set[1],
                        ODSet(ODEmpty, wIn.imgLabelName, "")))
    /\ wI' = 0
    /\ wpc' = "rows"
    /\ UNCHANGED <<wIn, wFile, wConv, codecVars, readerVars, binVars>>

\* micsTable.addRow(**micRow) (line 93)
MicRowDone(r) ==
    /\ wSelf' = [wSelf EXCEPT !.optics = r.optics]
    /\ wRow' = r.row
    /\ IF AddRowOk(wTables.mainCols, r.row.val)
       THEN /\ wTables' = [wTables EXCEPT !.mainRows =
                 Append(@, TableRow(wTables.mainCols, r.row.val))]
            /\ wpc' = "rows"
       ELSE /\ wpc' = "error"
            /\ UNCHANGED wTables

\* one iteration of `while mic is not None` (lines 86-94)
MicRow ==
    /\ wpc = "rows"
    /\ wIn.kind \in {"movies", "micrographs"}
    /\ wI < Len(wIn.set)
    /\ MicRowDone(MicToRow(wSelf, wIn.set[wI + 1],
                ODSet(wRow, wSelf.imgLabelName,
                      WriterBase_convert(wIn.set[wI + 1]))))
    /\ wI' = wI + 1
    /\ UNCHANGED <<wIn, wFile, wConv, codecVars, readerVars, binVars>>

\* the two tables written to the file (lines 96-104)
MicFinish ==
    /\ wpc = "rows"
    /\ wIn.kind \in {"movies", "micrographs"}
    /\ wI = Len(wIn.set)
    /\ IF OpticsFlushOk(wSelf, wTables.opticsCols)
       THEN /\ wFile' = <<HeaderLine("optics", wTables.opticsCols)>>
                        \o OpticsRows(wSelf, wTables.opticsCols)
                        \o <<HeaderLine(wIn.tableName, wTables.mainCols)>>
                        \o [i \in 1..Len(wTables.mainRows) |->
                                RowLine(wIn.tableName, wTables.mainRows[i])]
            /\ wpc' = "done"
       ELSE /\ wpc' = "error"
            /\ UNCHANGED wFile
    /\ UNCHANGED <<wIn, wSelf, wRow, wTables, wConv, wI, codecVars, readerVars, binVars>>

PartNext == PartBegin \/ PartRow \/ PartFinish
MicNext == MicBegin \/ MicRow \/ MicFinish
WriterNext == PartNext \/ MicNext

\* the Writer before any pass, for the specifications of other components
WriterIdle ==
    /\ wpc = "off"
    /\ wIn = <<>>
    /\ wSelf = WriterFields
    /\ wRow = ODEmpty
    /\ wTables = NoTables
    /\ wFile = <<>>
    /\ wConv = <<>>
    /\ wI = 0

(***************************************************************************)
(* The record sets the write passes are given.                             *)
(***************************************************************************)
MaxRecords == 3

MkAcq(name, voltage, cs, contrast, mtf) ==
    [name |-> name, voltage |-> voltage, cs |-> cs, contrast |-> contrast,
     beamTiltX |-> None, beamTiltY |-> None, mtfFile |-> mtf]

\* voltage 300 kV, spherical aberration 2.7 mm and amplitude contrast 0.1,
\* the last two in tenths
BaseAcq == MkAcq("", 300, 27, 1, None)

MkRecord(id, acq, ps, coord, transform, attrs, index) ==
    [id |-> id, acq |-> acq, ps |-> ps, xdim |-> 64, coord |-> coord,
     transform |-> transform, attrs |-> attrs,
     loc |-> [index |-> index, fn |-> "stack" \o ToString(id) \o ".mrcs"]]

MkCoord(micName, micId) ==
    Some([x |-> 10, y |-> 20, micName |-> micName, micId |-> micId,
          attrs |-> <<>>])

\* the keyword arguments and collaborators of a particles pass
PartsCall(set, setAcq, alignType, extraLabels, outputStack) ==
    [kind |-> "particles", set |-> set, setAcq |-> setAcq,
     alignType |-> alignType, extraLabels |-> extraLabels,
     outputStack |-> outputStack, imgLabelName |-> "",
     tableName |-> "particles"]

\* writeSetOfMicrographs / writeSetOfMovies (lines 49-57)
MicsCall(kind, set, extraLabels) ==
    [kind |-> kind, set |-> set, setAcq |-> BaseAcq,
     alignType |-> "ALIGN_NONE", extraLabels |-> extraLabels,
     outputStack |-> None,
     imgLabelName |-> IF kind = "movies" THEN "rlnMicrographMovieName"
                                         ELSE "rlnMicrographName",
     tableName |-> kind]

WriterStart ==
    /\ wpc = "idle"
    /\ wSelf = WriterFields
    /\ wRow = ODEmpty
    /\ wTables = NoTables
    /\ wFile = <<>>
    /\ wConv = <<>>
    /\ wI = 0
(***************************************************************************)
(* Inputs of the codec specification.                                      *)
(***************************************************************************)
MaxShift == 2
MaxPixelSize == 2

\* rotations by multiples of 90 degrees: three Euler angles in quarter turns
QuarterTurns == {0, 3, 6, 9}
\* in-plane rotations by multiples of 30 degrees
InPlaneAngles == 0..(UnitsPerTurn - 1)
ShiftVals == (-MaxShift)..MaxShift
PixelSizes == 1..MaxPixelSize

\* tfs.rotation_matrix(angle, z-axis) with a translation: the Transform of a
\* particle aligned in 2-D
InPlaneMatrix(k, x, y) ==
    [r \in Idx |-> [c \in Idx |->
        CASE r = 0 /\ c = 0 -> Cos(k)
          [] r = 0 /\ c = 1 -> NNeg(Sin(k))
          [] r = 1 /\ c = 0 -> Sin(k)
          [] r = 1 /\ c = 1 -> Cos(k)
          [] r = 0 /\ c = 3 -> NInt(x)
          [] r = 1 /\ c = 3 -> NInt(y)
          [] OTHER -> Identity4[r][c]]]

\* a rotation of the cube group with a 3-D translation
ProjMatrix(a, b, g, x, y, z) ==
    SetTranslation(euler_matrix(a, b, g), <<NInt(x), NInt(y), NInt(z)>>)

(***************************************************************************)
(* convert_utils.relionToLocation                                          *)
(***************************************************************************)
\* the position of the first '@' of a string, 0 when it holds none
RECURSIVE AtFrom(_, _)
AtFrom(s, i) ==
    IF i > Len(s) THEN 0
    ELSE IF SubSeq(s, i, i) = "@" THEN i
    ELSE AtFrom(s, i + 1)

DigitValue(c) ==
    CHOOSE d \in 0..9 : ToString(d) = c

\* int(indexStr) for a string of digits
RECURSIVE IntOf(_)
IntOf(s) ==
    IF Len(s) = 0 THEN 0
    ELSE 10 * IntOf(SubSeq(s, 1, Len(s) - 1)) + DigitValue(SubSeq(s, Len(s), Len(s)))

SplitAt(filename, at) ==
    IF at # 0
    THEN [index |-> IntOf(SubSeq(filename, 1, at - 1)),
          fn |-> SubSeq(filename, at + 1, Len(filename))]
    ELSE [index |-> NO_INDEX, fn |-> filename]

relionToLocation(filename) == SplitAt(filename, AtFrom(filename, 1))

(***************************************************************************)
(* Reader                                                                  *)
(***************************************************************************)
ALIGNMENT_LABELS ==
    {"rlnOriginXAngst", "rlnOriginYAngst", "rlnOriginZAngst",
     "rlnAngleRot", "rlnAngleTilt", "rlnAnglePsi"}

\* CTF_LABELS[:3]
DEFOCUS_LABELS == {"rlnDefocusU", "rlnDefocusV", "rlnDefocusAngle"}

\* Reader.__init__: setParticleTransform is the class's method, which decides
\* the handler; the other fields are set by readSetOfParticles
ReaderFields ==
    [handler |-> "dispatch", alignType |-> "ALIGN_NONE",
     angles |-> ZeroAngles, shifts |-> ZeroShifts, pixelSize |-> 1,
     setCtf |-> FALSE, setClassId |-> FALSE, optics |-> <<>>]

\* pwem.objects.Particle(): no transform, no CTF, values unset
NewParticle ==
    [objId |-> None, loc |-> [index |-> NO_INDEX, fn |-> ""],
     classId |-> None, ctf |-> None, acq |-> None, transform |-> None]

\* pwem.objects.CTFModel(): every value unset
NewCtf ==
    [defocusU |-> None, defocusV |-> None, defocusAngle |-> None,
     resolution |-> None, fitQuality |-> None, phaseShift |-> None,
     psdFile |-> None]

\* row.<label>: an AttributeError when the block has no such column
HasColumns(row, labels) == labels \subseteq DOMAIN row

\* Reader.rowToCtf(row, ctf) past the reads of row.rlnCtfMaxResolution and
\* row.rlnCtfFigureOfMerit (lines 427-438); x or 0 is x for a number
CtfFromRow(row, ctf) ==
    [ctf EXCEPT
        !.defocusU = Some(row["rlnDefocusU"]),
        !.defocusV = Some(row["rlnDefocusV"]),
        !.defocusAngle = Some(row["rlnDefocusAngle"]),
        !.resolution = Some(row["rlnCtfMaxResolution"]),
        !.fitQuality = Some(row["rlnCtfFigureOfMerit"]),
        !.phaseShift =
            IF "rlnCtfPhaseShift" \in DOMAIN row /\ row["rlnCtfPhaseShift"] # 0
            THEN Some(row["rlnCtfPhaseShift"])
            ELSE @,
        !.psdFile = IF "rlnCtfImage" \in DOMAIN row
                    THEN Some(row["rlnCtfImage"]) ELSE @]

\* Reader.rowToCtf(row, ctf): the CTF model as left by the call; not ok for
\* the AttributeError of a row without the column read
RowToCtf(row, ctf) ==
    IF HasColumns(row, {"rlnCtfMaxResolution", "rlnCtfFigureOfMerit"})
    THEN [ok |-> TRUE, ctf |-> CtfFromRow(row, ctf)]
    ELSE [ok |-> FALSE, ctf |-> ctf]

\* Reader.rowToAcquisition(optics, acq)
RowToAcquisition(optics) ==
    Some([voltage |-> optics.rlnVoltage,
          cs |-> optics.rlnSphericalAberration,
          contrast |-> optics.rlnAmplitudeContrast,
          name |-> optics.rlnOpticsGroupName])

\* the call of a bound handler: the Reader's arrays, the particle's transform
\* and the handler applied, or status "error" for an exception
HandlerResult(self, used, t) ==
    [status |-> "ok", self |-> [self EXCEPT !.angles = t.angles,
                                            !.shifts = t.shifts],
     transform |-> Some(t.matrix), used |-> used]

HandlerError(self, used) ==
    [status |-> "error", self |-> self, transform |-> None, used |-> used]

\* __setParticleTransformNone, __setParticleTransform2D and
\* __setParticleTransformProj on a particle whose transform is `transform`;
\* particle.getTransform().setMatrix fails on a particle without a Transform
CallHandler(self, transform, row) ==
    CASE self.handler = "None" ->
            [status |-> "ok", self |-> self, transform |-> None, used |-> "None"]
      [] self.handler = "2D" ->
            IF transform = None THEN HandlerError(self, "2D")
            ELSE HandlerResult(self, "2D",
                    SetParticleTransform2D(row, self.angles, self.shifts,
                                           self.pixelSize))
      [] self.handler = "Proj" ->
            IF transform = None THEN HandlerError(self, "Proj")
            ELSE HandlerResult(self, "Proj",
                    SetParticleTransformProj(row, self.angles, self.shifts,
                                             self.pixelSize))

\* the handler Reader.setParticleTransform (the class's method) binds, "raise"
\* for the exception of line 469
HandlerFor(alignType, row) ==
    IF alignType = "ALIGN_NONE" \/ (DOMAIN row) \cap ALIGNMENT_LABELS = {}
    THEN "None"
    ELSE IF alignType = "ALIGN_2D" THEN "2D"
    ELSE IF alignType = "ALIGN_PROJ" THEN "Proj"
    ELSE "raise"

\* Reader.setParticleTransform, the class's method (lines 451-473): it binds
\* the handler on the instance and calls it
Dispatch(self, row, h) ==
    CASE h = "raise" ->
            HandlerError([self EXCEPT !.angles = ZeroAngles,
                                      !.shifts = ZeroShifts], "raise")
      [] h = "None" ->
            CallHandler([self EXCEPT !.handler = h], None, row)
      [] OTHER ->
            CallHandler([self EXCEPT !.handler = h, !.angles = ZeroAngles,
                                     !.shifts = ZeroShifts],
                        Some(Identity4), row)

\* self.setParticleTransform(particle, row): whatever the instance has bound
SetParticleTransform(self, transform, row) ==
    IF self.handler = "dispatch"
    THEN Dispatch(self, row, HandlerFor(self.alignType, row))
    ELSE CallHandler(self, transform, row)

\* _rowToPart after rowToCtf (lines 409-413)
RowToPartEnd(self, particle, row, ctf, t) ==
    IF ~ctf.ok
    THEN [status |-> "error", self |-> self, particle |-> particle,
          used |-> "none"]
    ELSE [status |-> t.status, self |-> t.self, used |-> t.used,
          particle |-> [particle EXCEPT
              !.objId = IF "rlnImageId" \in DOMAIN row
                        THEN Some(row["rlnImageId"]) ELSE None,
              !.loc = relionToLocation(row["rlnImageName"]),
              !.classId = IF self.setClassId
                          THEN Some(row["rlnClassNumber"]) ELSE @,
              !.ctf = IF self.setCtf THEN Some(ctf.ctf) ELSE @,
              !.acq = RowToAcquisition(self.optics[row["rlnOpticsGroup"]]),
              !.transform = t.transform]]

\* Reader._rowToPart(row, particle): the Reader and the particle as left by
\* the call, and the transform handler applied to the row
RowToPart(self, particle, row) ==
    RowToPartEnd(self, particle, row,
        IF self.setCtf THEN RowToCtf(row, particle.ctf[1])
                       ELSE [ok |-> TRUE, ctf |-> NewCtf],
        SetParticleTransform(self, particle.transform, row))

(***************************************************************************)
(* Star files handed to a Reader.                                          *)
(***************************************************************************)
MaxPasses == 2
MaxRows == 2

AlignTypes == {"ALIGN_NONE", "ALIGN_2D", "ALIGN_PROJ", "ALIGN_3D"}

\* the optics block with one group of pixel size ps
OpticsBlock(ps) ==
    <<[rlnOpticsGroup |-> 1, rlnOpticsGroupName |-> "opticsGroup1",
       rlnVoltage |-> 300, rlnSphericalAberration |-> 27,
       rlnAmplitudeContrast |-> 1, rlnImagePixelSize |-> ps]>>

BaseColumns(k) ==
    [rlnImageName |-> Pad6(k) \o "@stack1.mrcs", rlnOpticsGroup |-> 1]

\* the alignment columns of row k: none, those of a 2-D alignment, or all six
AlignColumns(kind, k) ==
    CASE kind = "none" -> <<>>
      [] kind = "2D" ->
            [rlnOriginXAngst |-> NInt(6 * k), rlnOriginYAngst |-> NInt(0),
             rlnAnglePsi |-> k * DegPerUnit]
      [] kind = "Proj" ->
            [rlnOriginXAngst |-> NInt(6 * k), rlnOriginYAngst |-> NInt(0),
             rlnOriginZAngst |-> NInt(6),
             rlnAngleRot |-> 90, rlnAngleTilt |-> (k % 2) * 90,
             rlnAnglePsi |-> 0]

\* the CTF columns of a row: the three defocus columns and any of the others
CtfOptional == {"rlnCtfMaxResolution", "rlnCtfFigureOfMerit", "rlnCtfPhaseShift"}

CtfValues ==
    [rlnDefocusU |-> 10000, rlnDefocusV |-> 9000, rlnDefocusAngle |-> 45,
     rlnCtfMaxResolution |-> 3, rlnCtfFigureOfMerit |-> 1,
     rlnCtfPhaseShift |-> 90]

CtfColumns(labels) == [l \in labels |-> CtfValues[l]]

CtfColumnSets ==
    {{}} \cup {DEFOCUS_LABELS \cup opt : opt \in SUBSET CtfOptional}

StarRow(k, kind, ctfLabels) ==
    BaseColumns(k) @@ AlignColumns(kind, k) @@ CtfColumns(ctfLabels)

ReaderInputs ==
    {[alignType |-> at, optics |-> OpticsBlock(ps),
      rows |-> [k \in 1..n |-> StarRow(k, kind, ctf)]] :
        at \in AlignTypes, ps \in PixelSizes, n \in 1..MaxRows,
        kind \in {"none", "2D", "Proj"}, ctf \in CtfColumnSets}

(***************************************************************************)
(* Read passes of one Reader.                                              *)
(***************************************************************************)
\* the fields readSetOfParticles sets from its arguments and the first row
\* (lines 346-363); getOpticsDict(starFile) maps each group id to its row
ReadFields(self, in) ==
    [self EXCEPT
        !.alignType = in.alignType,
        !.optics = in.optics,
        !.pixelSize = IF "rlnImagePixelSize" \in DOMAIN in.optics[1]
                      THEN in.optics[1]["rlnImagePixelSize"] ELSE 1,
        !.setClassId = "rlnClassNumber" \in DOMAIN in.rows[1],
        !.setCtf = HasColumns(in.rows[1], DEFOCUS_LABELS)]

\* lines 365-368: the particle every row of the pass is read into
PassParticle(self) ==
    IF self.setCtf THEN [NewParticle EXCEPT !.ctf = Some(NewCtf)]
    ELSE NewParticle

\* a row read into the particle and the particle appended to the set; an
\* exception ends the pass
RowRead(r, particle, out, used, i) ==
    /\ rSelf' = r.self
    /\ rUsed' = IF r.used = "none" THEN used ELSE Append(used, r.used)
    /\ rParticle' = IF r.status = "ok" THEN r.particle ELSE particle
    /\ rOut' = IF r.status = "ok" THEN Append(out, r.particle) ELSE out
    /\ rI' = IF r.status = "ok" THEN i + 1 ELSE i
    /\ rpc' = IF r.status = "ok" THEN "rows" ELSE "error"

ReadFirstRow(self, in) ==
    RowRead(RowToPart(self, PassParticle(self), in.rows[1]),
            PassParticle(self), <<>>, <<>>, 0)

\* readSetOfParticles up to the first append (lines 346-384), on a Reader
\* that is new or has read other files before
ReadBegin ==
    /\ rpc \in {"new", "done", "error"}
    /\ rPass < MaxPasses
    /\ \E in \in ReaderInputs :
          /\ rIn' = in
          /\ ReadFirstRow(ReadFields(rSelf, in), in)
    /\ rPass' = rPass + 1
    /\ UNCHANGED <<codecVars, writerVars, binVars>>

\* one turn of the loop of lines 386-388
ReadRow ==
    /\ rpc = "rows"
    /\ rI < Len(rIn.rows)
    /\ RowRead(RowToPart(rSelf, rParticle, rIn.rows[rI + 1]),
               rParticle, rOut, rUsed, rI)
    /\ UNCHANGED <<rIn, rPass, codecVars, writerVars, binVars>>

\* lines 390-391
ReadFinish ==
    /\ rpc = "rows"
    /\ rI = Len(rIn.rows)
    /\ rpc' = "done"
    /\ UNCHANGED <<rIn, rPass, rSelf, rParticle, rOut, rUsed, rI,
                   codecVars, writerVars, binVars>>

ReaderNext == ReadBegin \/ ReadRow \/ ReadFinish

\* the Reader unused, for the specifications of other components
ReaderIdle ==
    /\ rpc = "off"
    /\ rPass = 0
    /\ rIn = <<>>
    /\ rSelf = ReaderFields
    /\ rParticle = NewParticle
    /\ rOut = <<>>
    /\ rUsed = <<>>
    /\ rI = 0
(***************************************************************************)
(* Path and string functions used by convertBinaryFiles.                   *)
(***************************************************************************)
\* the position of the last occurrence of character c in s[1..i], 0 if none
RECURSIVE LastIndex(_, _, _)
LastIndex(s, c, i) ==
    IF i = 0 THEN 0
    ELSE IF SubSeq(s, i, i) = c THEN i
    ELSE LastIndex(s, c, i - 1)

Tail_(s, from) == SubSeq(s, from, Len(s))

\* os.path.basename, os.path.dirname
BasenameAt(p, slash) == Tail_(p, slash + 1)
Basename(p) == BasenameAt(p, LastIndex(p, "/", Len(p)))
DirnameAt(p, slash) == IF slash = 0 THEN "" ELSE SubSeq(p, 1, slash - 1)
Dirname(p) == DirnameAt(p, LastIndex(p, "/", Len(p)))

\* os.path.splitext: the extension starts at the last dot of the base name
SplitextAt(p, slash, dot) ==
    IF dot > slash + 1
    THEN [root |-> SubSeq(p, 1, dot - 1), ext |-> Tail_(p, dot)]
    ELSE [root |-> p, ext |-> ""]
Splitext(p) ==
    SplitextAt(p, LastIndex(p, "/", Len(p)), LastIndex(p, ".", Len(p)))

\* pwutils.getExt, pwutils.removeExt, pwutils.replaceBaseExt
GetExt(p) == Splitext(p).ext
RemoveExt(p) == Splitext(p).root
ReplaceBaseExt(p, ext) == RemoveExt(Basename(p)) \o "." \o ext

\* os.path.join of two relative paths
Join(a, b) == IF a = "" THEN b ELSE a \o "/" \o b

\* the length of the longest common prefix of a and b, from position i on
RECURSIVE CommonLen(_, _, _)
CommonLen(a, b, i) ==
    IF i < Len(a) /\ i < Len(b) /\ SubSeq(a, i + 1, i + 1) = SubSeq(b, i + 1, i + 1)
    THEN CommonLen(a, b, i + 1)
    ELSE i

\* os.path.commonprefix of a non-empty list
RECURSIVE CommonPrefix(_)
CommonPrefix(list) ==
    IF Len(list) = 1 THEN list[1]
    ELSE SubSeq(list[1], 1, CommonLen(list[1], CommonPrefix(Tail(list)), 0))

\* pwutils.commonPath
CommonPath(list) == Dirname(CommonPrefix(list))

\* str.replace(old, new) for a non-empty old: every occurrence, left to right
RECURSIVE Replace(_, _, _)
Replace(s, old, new) ==
    IF Len(s) < Len(old) THEN s
    ELSE IF SubSeq(s, 1, Len(old)) = old
         THEN new \o Replace(Tail_(s, Len(old) + 1), old, new)
         ELSE SubSeq(s, 1, 1) \o Replace(Tail_(s, 2), old, new)

\* '%05d' % counter
Pad5(counter) == Zeros(5 - Len(ToString(counter))) \o ToString(counter)

EndsWith(s, suffix) ==
    Len(s) >= Len(suffix) /\ Tail_(s, Len(s) - Len(suffix) + 1) = suffix

(***************************************************************************)
(* convertBinaryFiles (convert_utils.py, lines 63-162)                     *)
(***************************************************************************)
\* filesDict.values()
DictValues(dict) == {dict[k][2] : k \in 1..Len(dict)}
DictKeys(dict) == {dict[k][1] : k \in 1..Len(dict)}

\* filesDict[fn] = newFn
DictSet(dict, fn, newFn) ==
    IF fn \in DictKeys(dict)
    THEN [k \in 1..Len(dict) |->
            IF dict[k][1] = fn THEN <<fn, newFn>> ELSE dict[k]]
    ELSE Append(dict, <<fn, newFn>>)

\* the dictionary returned, as a function of its keys
MappingOf(dict) ==
    [fn \in DictKeys(dict) |->
        dict[CHOOSE k \in 1..Len(dict) : dict[k][1] = fn][2]]

\* the loop of getUniqueFileName (lines 95-97)
UniqueFromMutOnce(newFn, newRoot, counter, extension, values) ==
    IF newFn \in values
    THEN newRoot \o "_" \o Pad5(counter + 1) \o "." \o extension
    ELSE newFn

RECURSIVE UniqueFrom(_, _, _, _, _)
UniqueFrom(newFn, newRoot, counter, extension, values) ==
    IF newFn \in values
    THEN UniqueFrom(newRoot \o "_" \o Pad5(counter + 1) \o "." \o extension,
                    newRoot, counter + 1, extension, values)
    ELSE newFn

\* getUniqueFileName(fn, extension)
getUniqueFileName(fn, extension, outputRoot, values) ==
    UniqueFrom(Join(outputRoot, ReplaceBaseExt(fn, extension)),
               RemoveExt(Join(outputRoot, ReplaceBaseExt(fn, extension))),
               1, extension, values)

\* os.path.exists on the output file system
Exists(fs, path) == \E e \in fs : e.path = path

FsPaths(fs) == {e.path : e \in fs}

\* pwutils.createLink(fn, newFn), guarded by os.path.exists (lines 106-107)
LinkIfAbsent(fs, fn, newFn) ==
    IF Exists(fs, newFn) THEN fs
    ELSE fs \cup {[path |-> newFn, kind |-> "link", src |-> fn]}

\* ih.convertStack(fn, newFn): the stack is written whatever exists there
ConvertTo(fs, fn, newFn) ==
    {e \in fs : e.path # newFn} \cup
        {[path |-> newFn, kind |-> "stack", src |-> fn]}

\* os.symlink(relativeOutput, outputRoot), guarded by os.path.exists
\* (lines 145-146); the link resolves to rootDir
SymlinkIfAbsent(fs, rootDir, outputRoot) ==
    IF Exists(fs, outputRoot) THEN fs
    ELSE fs \cup {[path |-> outputRoot, kind |-> "symlink", src |-> rootDir]}

\* pwutils.makePath(outputRoot)
MakePath(fs, outputRoot) ==
    IF Exists(fs, outputRoot) THEN fs
    ELSE fs \cup {[path |-> outputRoot, kind |-> "dir", src |-> ""]}

\* outputRoot (line 78)
OutputRoot(in) ==
    IF in.forceConvert THEN in.outputDir ELSE Join(in.outputDir, "input")

\* the choice of mapFunc (lines 126-154), ext the extension of the file the
\* set yields first
MapFuncFor(in, ext) ==
    IF in.forceConvert THEN "convertStack"
    ELSE IF ext = in.extension THEN "replaceRoot"
    ELSE IF ext = "mrc" /\ in.extension = "mrcs" THEN "createBinaryLink"
    ELSE IF EndsWith(ext, "hdf") THEN "convertStack"
    ELSE "None"

\* newFn = mapFunc(fn)
MapFunc(mode, fn, in, rootDir, values) ==
    CASE mode = "convertStack" ->
            getUniqueFileName(fn, "mrcs", OutputRoot(in), values)
      [] mode = "createBinaryLink" ->
            getUniqueFileName(fn, in.extension, OutputRoot(in), values)
      [] mode = "replaceRoot" ->
            Replace(fn, rootDir, OutputRoot(in))

\* what mapFunc(fn) leaves on the file system
MapFuncFs(mode, fs, fn, newFn) ==
    CASE mode = "convertStack" -> ConvertTo(fs, fn, newFn)
      [] mode = "createBinaryLink" -> LinkIfAbsent(fs, fn, newFn)
      [] mode = "replaceRoot" -> fs

(***************************************************************************)
(* Inputs: file sets, visited in an order the set chooses.                 *)
(***************************************************************************)
MaxFiles == 3
MaxCalls == 2

\* stacks of several runs; two share a base name, and one has the name that
\* the collision rule gives to the second of them
SourceFiles ==
    {"in/r1/p.mrc", "in/r2/p.mrc", "in/r3/p_00002.mrc", "in/r1/p.hdf",
     "in/r2/q.spi"}

\* the orders a set of files can be iterated in
Orders(files) ==
    {s \in [1..Cardinality(files) -> files] :
        \A i, j \in 1..Cardinality(files) : s[i] = s[j] => i = j}

FileSets ==
    {fs \in SUBSET SourceFiles : Cardinality(fs) \in 1..MaxFiles}

BinCalls ==
    {[fileSet |-> fs, outputDir |-> "out", extension |-> e, forceConvert |-> fc] :
        fs \in FileSets, e \in {"mrcs", "mrc"}, fc \in BOOLEAN}

WithOrder(call, order) ==
    [files |-> order, fileSet |-> call.fileSet, outputDir |-> call.outputDir,
     extension |-> call.extension, forceConvert |-> call.forceConvert]

\* the first call takes any arguments; the calls after it repeat them
CallsAfter(call, n) ==
    IF n = 0 THEN BinCalls
    ELSE {[fileSet |-> call.fileSet, outputDir |-> call.outputDir,
           extension |-> call.extension, forceConvert |-> call.forceConvert]}

(***************************************************************************)
(* Calls of convertBinaryFiles, one after the other.                       *)
(***************************************************************************)
\* lines 76-155: mapFunc chosen, the relocation symlink and the output
\* directory made; os.path.relpath raises on an empty rootDir
BinEnter(in, mode, rootDir) ==
    /\ bIn' = in
    /\ bMode' = mode
    /\ bRoot' = rootDir
    /\ bDict' = <<>>
    /\ bI' = 0
    /\ IF mode = "replaceRoot" /\ rootDir = ""
       THEN /\ bpc' = "error"
            /\ bFs' = bFs
       ELSE /\ bpc' = "loop"
            /\ bFs' = IF mode = "None" THEN bFs
                      ELSE MakePath(
                              IF mode = "replaceRoot"
                              THEN SymlinkIfAbsent(bFs, rootDir, OutputRoot(in))
                              ELSE bFs,
                              OutputRoot(in))

BinBegin ==
    /\ bpc \in {"ready", "returned", "error"}
    /\ bCall < MaxCalls
    /\ \E call \in CallsAfter(bIn, bCall) :
         \E order \in Orders(call.fileSet) :
            BinEnter(WithOrder(call, order),
                     MapFuncFor(call, Tail_(GetExt(order[1]), 2)),
                     CommonPath(order))
    /\ bCall' = bCall + 1
    /\ UNCHANGED <<bLog, codecVars, writerVars, readerVars>>

\* one turn of the loop of lines 158-160
BinMapped(fn, newFn) ==
    /\ bDict' = DictSet(bDict, fn, newFn)
    /\ bFs' = MapFuncFs(bMode, bFs, fn, newFn)

BinStep ==
    /\ bpc = "loop"
    /\ bMode # "None"
    /\ bI < Len(bIn.files)
    /\ BinMapped(bIn.files[bI + 1],
                 MapFunc(bMode, bIn.files[bI + 1], bIn, bRoot, DictValues(bDict)))
    /\ bI' = bI + 1
    /\ UNCHANGED <<bpc, bCall, bIn, bMode, bRoot, bLog,
                   codecVars, writerVars, readerVars>>

\* return filesDict (line 162)
BinReturn ==
    /\ bpc = "loop"
    /\ bMode = "None" \/ bI = Len(bIn.files)
    /\ bpc' = "returned"
    /\ bLog' = Append(bLog, [mapping |-> MappingOf(bDict), fs |-> bFs,
                             mode |-> bMode])
    /\ UNCHANGED <<bCall, bIn, bMode, bRoot, bDict, bI, bFs,
                   codecVars, writerVars, readerVars>>

BinNext == BinBegin \/ BinStep \/ BinReturn

\* convertBinaryFiles unused, for the specifications of other components
BinIdle ==
    /\ bpc = "off"
    /\ bCall = 0
    /\ bIn = <<>>
    /\ bMode = "None"
    /\ bRoot = ""
    /\ bDict = <<>>
    /\ bI = 0
    /\ bFs = {}
    /\ bLog = <<>>
(***************************************************************************)
(* The codec specification: a transform written to a row and read back.    *)
(***************************************************************************)
\* the codec unused, for the specifications of other components
CodecIdle ==
    /\ cpc = "off"
    /\ cMode = "2D"
    /\ cMatrix = Identity4
    /\ cWPs = 1
    /\ cRPs = 1
    /\ cRow = [none |-> 0]
    /\ cOut = Identity4

CodecInit ==
    /\ cpc = "start"
    /\ cMode \in {"2D", "Proj"}
    /\ cWPs \in PixelSizes
    /\ cRPs \in PixelSizes
    /\ \/ /\ cMode = "2D"
          /\ \E k \in InPlaneAngles, x, y \in ShiftVals :
                cMatrix = InPlaneMatrix(k, x, y)
       \/ /\ cMode = "Proj"
          /\ \E a, b, g \in QuarterTurns, x \in ShiftVals, y, z \in {0, MaxShift} :
                cMatrix = ProjMatrix(a, b, g, x, y, z)
    /\ cRow = [none |-> 0]
    /\ cOut = Identity4
    /\ WriterIdle
    /\ ReaderIdle
    /\ BinIdle

\* Writer._setAlign(part.getTransform(), row)
CodecWrite ==
    /\ cpc = "start"
    /\ cRow' = IF cMode = "2D" THEN Align2DToRow(cMatrix, cWPs)
                               ELSE AlignProjToRow(cMatrix, cWPs)
    /\ cpc' = "written"
    /\ UNCHANGED <<cMode, cMatrix, cWPs, cRPs, cOut, writerVars, readerVars, binVars>>

\* Reader.setParticleTransform on the row just written, by a fresh Reader
CodecRead ==
    /\ cpc = "written"
    /\ cOut' = IF cMode = "2D"
               THEN SetParticleTransform2D(cRow, ZeroAngles, ZeroShifts, cRPs).matrix
               ELSE SetParticleTransformProj(cRow, ZeroAngles, ZeroShifts, cRPs).matrix
    /\ cpc' = "read"
    /\ UNCHANGED <<cMode, cMatrix, cWPs, cRPs, cRow, writerVars, readerVars, binVars>>

CodecNext == CodecWrite \/ CodecRead

SpecCodec == CodecInit /\ [][CodecNext]_vars

(***************************************************************************)
(* Write passes over record sets that differ in their acquisition.         *)
(***************************************************************************)
\* acquisition and pixel size of a record: the base fingerprint and records
\* that differ from it in one field or in several
OpticsProfiles ==
    {[acq |-> BaseAcq, ps |-> 1],
     [acq |-> MkAcq("", 200, 27, 1, None), ps |-> 1],
     [acq |-> MkAcq("", 300, 14, 1, None), ps |-> 1],
     [acq |-> MkAcq("", 300, 27, 7, None), ps |-> 1],
     [acq |-> MkAcq("", 300, 27, 1, Some("mtf_k2.star")), ps |-> 1],
     [acq |-> MkAcq("og1", 300, 27, 1, None), ps |-> 1],
     [acq |-> MkAcq("og1", 200, 27, 1, Some("mtf_k2.star")), ps |-> 1],
     [acq |-> MkAcq("og2", 300, 27, 1, None), ps |-> 1]}
    \cup {[acq |-> BaseAcq, ps |-> p] : p \in 2..MaxPixelSize}

OpticsRecord(i, p) == MkRecord(i, p.acq, p.ps, None, Identity4, <<>>, i)

OpticsSets ==
    UNION {{[i \in 1..n |-> OpticsRecord(i, f[i])] :
                f \in [1..n -> OpticsProfiles]} : n \in 1..MaxRecords}

OpticsInit ==
    /\ WriterStart
    /\ CodecIdle
    /\ ReaderIdle
    /\ BinIdle
    /\ \E set \in OpticsSets :
          \/ \E name \in {"", "og1"} :
                wIn = PartsCall(set, [BaseAcq EXCEPT !.name = name],
                                "ALIGN_NONE", <<>>, None)
          \/ \E kind \in {"movies", "micrographs"} :
                wIn = MicsCall(kind, set, <<>>)

SpecOptics == OpticsInit /\ [][WriterNext]_vars

(***************************************************************************)
(* Particle passes over records that differ in transform and pixel size.   *)
(***************************************************************************)
Transforms2D ==
    {Identity4, InPlaneMatrix(1, 2, 3), InPlaneMatrix(6, -1, 0)}
TransformsProj ==
    {Identity4, ProjMatrix(3, 3, 0, 1, 0, 2), ProjMatrix(0, 6, 9, 0, -2, 1)}

AlignRecord(i, t, ps) == MkRecord(i, BaseAcq, ps, None, t, <<>>, i)

AlignSets(transforms) ==
    UNION {{[i \in 1..n |-> AlignRecord(i, f[i][1], f[i][2])] :
                f \in [1..n -> transforms \X PixelSizes]} : n \in 1..MaxRecords}

AlignInit ==
    /\ WriterStart
    /\ CodecIdle
    /\ ReaderIdle
    /\ BinIdle
    /\ \/ \E set \in AlignSets(Transforms2D) :
            wIn = PartsCall(set, BaseAcq, "ALIGN_2D", <<>>, None)
       \/ \E set \in AlignSets(TransformsProj) :
            wIn = PartsCall(set, BaseAcq, "ALIGN_PROJ", <<>>, None)
       \/ \E set \in AlignSets({Identity4}), at \in {"ALIGN_NONE", "ALIGN_3D"} :
            wIn = PartsCall(set, BaseAcq, at, <<>>, None)

SpecAlign == AlignInit /\ [][PartNext]_vars

(***************************************************************************)
(* Passes over records that differ in their optional fields.               *)
(***************************************************************************)
RowProfiles ==
    {[coord |-> None, attrs |-> <<>>, index |-> 3],
     [coord |-> MkCoord("mic 1.mrc", 4), attrs |-> <<>>, index |-> 3],
     [coord |-> MkCoord("", 7), attrs |-> ("_myLabel" :> 5), index |-> 0],
     [coord |-> MkCoord("", 0), attrs |-> <<>>, index |-> 1],
     [coord |-> None,
      attrs |-> ("_myLabel" :> 6) @@ ("_rlnParticleSelectZScore" :> 2),
      index |-> 3]}

RowRecord(i, p) == MkRecord(i, BaseAcq, 1, p.coord, Identity4, p.attrs, p.index)

RowSets ==
    UNION {{[i \in 1..n |-> RowRecord(i, f[i])] :
                f \in [1..n -> RowProfiles]} : n \in 1..MaxRecords}

RowsInit ==
    /\ WriterStart
    /\ CodecIdle
    /\ ReaderIdle
    /\ BinIdle
    /\ \E set \in RowSets, extra \in {<<>>, <<"myLabel">>} :
          \/ \E stack \in {None, Some("particles.mrcs")} :
                wIn = PartsCall(set, BaseAcq, "ALIGN_NONE", extra, stack)
          \/ wIn = MicsCall("micrographs", set, extra)

SpecRows == RowsInit /\ [][WriterNext]_vars
(***************************************************************************)
(* The Reader specification: one Reader, star files read one after the     *)
(* other.                                                                  *)
(***************************************************************************)
ReaderInit ==
    /\ rpc = "new"
    /\ rPass = 0
    /\ rIn = <<>>
    /\ rSelf = ReaderFields
    /\ rParticle = NewParticle
    /\ rOut = <<>>
    /\ rUsed = <<>>
    /\ rI = 0
    /\ CodecIdle
    /\ WriterIdle
    /\ BinIdle

SpecRead == ReaderInit /\ [][ReaderNext]_vars

(***************************************************************************)
(* The asset specification: convertBinaryFiles called again and again on   *)
(* one file set, the output directory empty at first.                      *)
(***************************************************************************)
BinInit ==
    /\ bpc = "ready"
    /\ bCall = 0
    /\ bIn = <<>>
    /\ bMode = "None"
    /\ bRoot = ""
    /\ bDict = <<>>
    /\ bI = 0
    /\ bFs = {}
    /\ bLog = <<>>
    /\ CodecIdle
    /\ WriterIdle
    /\ ReaderIdle

SpecBin == BinInit /\ [][BinNext]_vars

(***************************************************************************)
(* Claims about the transform codec.                                       *)
(***************************************************************************)
\* C1: a transform written by _align2DToRow / _alignProjToRow and read back
\* by __setParticleTransform2D / __setParticleTransformProj with the same
\* pixel size is the original matrix.
C1_RoundTrip ==
    (cpc = "read" /\ cWPs = cRPs) => cOut = cMatrix

C1_Witness ==
    /\ cpc = "read"
    /\ cWPs = cRPs
    /\ cMode = "Proj"
    /\ cMatrix = ProjMatrix(3, 6, 0, 1, 2, 0)
    /\ cOut = cMatrix

(***************************************************************************)
(* Claims about the write passes.                                          *)
(***************************************************************************)
\* the position of a label among columns, 0 when absent
ColumnOf(cols, label) ==
    IF \E i \in 1..Len(cols) : cols[i] = label
    THEN CHOOSE i \in 1..Len(cols) : cols[i] = label
    ELSE 0

IsMainRow(line) == line.kind = "row" /\ line.table # "optics"
IsOpticsLine(line) == line.table = "optics"
IsOpticsRow(line) == line.kind = "row" /\ line.table = "optics"
IsMainHeader(line) == line.kind = "header" /\ line.table # "optics"

\* the rows of the main table in the file, and its header's columns
MainRows == SelectSeq(wFile, IsMainRow)
OpticsRowsWritten == SelectSeq(wFile, IsOpticsRow)
MainColumns == SelectSeq(wFile, IsMainHeader)[1].cells

\* the rows built so far, one per record processed: written to the file as
\* they are built (particles) or kept in the table (movies, micrographs)
BuiltRows ==
    IF wIn.kind = "particles"
    THEN [k \in 1..Len(MainRows) |-> MainRows[k].cells]
    ELSE wTables.mainRows

\* the value the k-th row carries under a column of the main table
Cell(k, label) == BuiltRows[k][ColumnOf(wTables.mainCols, label)]

\* the streaming loop has processed every record
AllProcessed == wpc \in {"rows", "done", "error"} /\ wI = Len(wIn.set)

\* the acquisition fingerprint of a record
Fingerprint(rec) ==
    <<rec.acq.voltage, rec.acq.cs, rec.acq.contrast, rec.ps, rec.acq.name>>

SameFingerprint(set) ==
    \A i, j \in 1..Len(set) : Fingerprint(set[i]) = Fingerprint(set[j])

\* the optics entries in the map's order
OpticsEntries == [i \in 1..Len(wSelf.optics.keys) |->
                    wSelf.optics.val[wSelf.optics.keys[i]]]

\* C2: a write pass over records that all share one acquisition fingerprint
\* produces exactly one optics-group entry, and every written row carries
\* that entry's id as rlnOpticsGroup.
C2_OneGroupPerFingerprint ==
    (AllProcessed /\ SameFingerprint(wIn.set)) =>
        /\ Len(OpticsEntries) = 1
        /\ wpc = "done" => Len(OpticsRowsWritten) = 1
        /\ Len(BuiltRows) = Len(wIn.set)
        /\ \A k \in 1..Len(BuiltRows) :
              Cell(k, "rlnOpticsGroup") = OpticsEntries[1]["rlnOpticsGroup"]

\* the group name of a record's acquisition, 'DefaultOpticsGroup' when unset
GroupNameOf(acq) == IF acq.name = "" THEN "DefaultOpticsGroup" ELSE acq.name

\* the group names in the order the pass meets them: the seeding call (on the
\* set's acquisition for particles, on the first record otherwise), then the
\* records
NamesMet ==
    <<IF wIn.kind = "particles" THEN GroupNameOf(wIn.setAcq)
                                ELSE GroupNameOf(wIn.set[1].acq)>>
    \o [i \in 1..Len(wIn.set) |-> GroupNameOf(wIn.set[i].acq)]

\* the number of distinct names among the first n names met
DistinctBefore(n) == Cardinality({NamesMet[i] : i \in 1..n})

\* record d differs from the others, which all share one fingerprint
OnlyDiffers(set, d) ==
    /\ Len(set) >= 2
    /\ \A i, j \in (1..Len(set)) \ {d} : Fingerprint(set[i]) = Fingerprint(set[j])
    /\ \A i \in (1..Len(set)) \ {d} : Fingerprint(set[i]) # Fingerprint(set[d])

\* C3 as stated: whatever the field in which the one record differs, the map
\* ends with a second entry, with id 2, and that record's row references 2.
C3_SecondEntryForAnyField ==
    AllProcessed =>
        \A d \in 1..Len(wIn.set) :
            OnlyDiffers(wIn.set, d) =>
                /\ Len(OpticsEntries) = 2
                /\ OpticsEntries[2]["rlnOpticsGroup"] = 2
                /\ Cell(d, "rlnOpticsGroup") = 2

\* C3, amended: the map is keyed by the group name alone.  A record that
\* differs from the others only in voltage, aberration, contrast or pixel
\* size gets no entry and its row references the others' id; a record with
\* another group name gets the entry created when that name is first met,
\* with the next free id (2 when one name was met before it), and its row
\* references that id.
C3_SecondEntryForGroupName ==
    AllProcessed =>
        \A d \in 1..Len(wIn.set) :
            OnlyDiffers(wIn.set, d) =>
                LET o == CHOOSE i \in (1..Len(wIn.set)) \ {d} : TRUE
                    first == CHOOSE i \in 1..Len(NamesMet) :
                                /\ NamesMet[i] = GroupNameOf(wIn.set[d].acq)
                                /\ \A j \in 1..(i - 1) : NamesMet[j] # NamesMet[i]
                IN  /\ Len(OpticsEntries) = DistinctBefore(Len(NamesMet))
                    /\ Cell(d, "rlnOpticsGroup") = DistinctBefore(first)
                    /\ wSelf.optics.val[GroupNameOf(wIn.set[d].acq)]["rlnOpticsGroup"]
                         = DistinctBefore(first)
                    /\ (GroupNameOf(wIn.set[d].acq) = GroupNameOf(wIn.set[o].acq))
                         <=> (Cell(d, "rlnOpticsGroup") = Cell(o, "rlnOpticsGroup"))
                    /\ (DistinctBefore(first - 1) = 1 /\ first > 1)
                         => Cell(d, "rlnOpticsGroup") = 2

C3_Witness ==
    /\ wpc = "done"
    /\ wIn.kind = "micrographs"
    /\ Len(wIn.set) = 3
    /\ OnlyDiffers(wIn.set, 3)
    /\ wIn.set[3].acq.name = "og1"
    /\ wIn.set[3].acq.voltage # wIn.set[1].acq.voltage
    /\ Len(OpticsEntries) = 2
    /\ Cell(3, "rlnOpticsGroup") = 2

\* the end-to-end example: two particles of the same acquisition and pixel
\* size 1.0, the first rotated in plane by 30 degrees and shifted by (2, 3)
\* pixels, the second with the identity transform, written in 2-D mode
ExampleWritten ==
    /\ wpc = "done"
    /\ wIn.kind = "particles"
    /\ wIn.alignType = "ALIGN_2D"
    /\ wIn.setAcq = BaseAcq
    /\ wIn.set = <<AlignRecord(1, InPlaneMatrix(1, 2, 3), 1),
                   AlignRecord(2, Identity4, 1)>>

ExampleTables ==
    /\ Len(OpticsRowsWritten) = 1
    /\ OpticsEntries[1]["rlnOpticsGroup"] = 1
    /\ Len(MainRows) = 2
    /\ Cell(1, "rlnOpticsGroup") = 1
    /\ Cell(2, "rlnOpticsGroup") = 1
    /\ Cell(1, "rlnOriginXAngst") = NInt(2)
    /\ Cell(1, "rlnOriginYAngst") = NInt(3)

\* C4 as stated: the example yields one optics row with id 1, two particle
\* rows with rlnOpticsGroup 1, and for particle 1 rlnAnglePsi = -30,
\* rlnOriginXAngst = 2 and rlnOriginYAngst = 3.
C4_ExamplePsiMinus30 ==
    ExampleWritten => (ExampleTables /\ Cell(1, "rlnAnglePsi") = -30)

\* C4, amended: as stated, but particle 1's rlnAnglePsi is +30: the two
\* negations of _align2DToRow cancel.
C4_ExamplePsiPlus30 ==
    ExampleWritten => (ExampleTables /\ Cell(1, "rlnAnglePsi") = 30)

C4_Witness ==
    /\ ExampleWritten
    /\ Cell(1, "rlnAnglePsi") = 30
    /\ Cell(2, "rlnAnglePsi") = 0

\* no optics line of the file precedes a line of the main table, and the
\* optics lines are written once every record's row is
OpticsAfterMain ==
    /\ \A i, j \in 1..Len(wFile) :
          (i < j /\ IsOpticsLine(wFile[i])) => IsOpticsLine(wFile[j])
    /\ (\E i \in 1..Len(wFile) : IsOpticsLine(wFile[i])) =>
          Len(MainRows) = Len(wIn.set)

\* C5 as stated: in every write pass, movies, micrographs and particles alike,
\* the optics table is written only after every row of the main table.
C5_OpticsLastInEveryPass == OpticsAfterMain

\* C5, amended: in a particles pass the optics table is written only after
\* every row of the main table; in a movies or micrographs pass both tables
\* are written once every record is processed, the optics block first and the
\* main block after it.
C5_OpticsLastInParticlesPass ==
    /\ wIn.kind = "particles" => OpticsAfterMain
    /\ wIn.kind \in {"movies", "micrographs"} =>
          /\ wFile # <<>> => (wpc = "done" /\ wI = Len(wIn.set))
          /\ \A i, j \in 1..Len(wFile) :
                (i < j /\ ~IsOpticsLine(wFile[i])) => ~IsOpticsLine(wFile[j])
          /\ wpc = "done" =>
                /\ IsOpticsLine(wFile[1])
                /\ Len(MainRows) = Len(wIn.set)

C5_Witness ==
    /\ wpc = "done"
    /\ wIn.kind = "particles"
    /\ Len(wIn.set) = 2
    /\ Len(OpticsEntries) = 2
    /\ IsMainRow(wFile[3])
    /\ IsOpticsLine(wFile[4])

\* C6: for every label L of extraLabels and every record with an attribute
\* '_' + L, the row produced for that record holds row[L], with the
\* attribute's value.
C6_ExtraLabelsCopied ==
    (wpc \in {"rows", "done"} /\ wI >= 1) =>
        \A i \in 1..Len(wSelf.extraLabels) :
            LET L == wSelf.extraLabels[i]
                attrs == wIn.set[wI].attrs
            IN  ("_" \o L) \in DOMAIN attrs =>
                    /\ ODHas(wRow, L)
                    /\ wRow.val[L] = attrs["_" \o L]

\* the translation of a record in pixels, as the alignment mode reads it: the
\* matrix's translation in 2-D mode, the negated translation of the inverse
\* matrix in projection mode
ShiftInPixels(rec, alignType) ==
    IF alignType = "ALIGN_2D"
    THEN translation_from_matrix(rec.transform)
    ELSE Neg3(translation_from_matrix(MatInv(rec.transform)))

OriginLabels(alignType) ==
    IF alignType = "ALIGN_2D"
    THEN <<"rlnOriginXAngst", "rlnOriginYAngst">>
    ELSE <<"rlnOriginXAngst", "rlnOriginYAngst", "rlnOriginZAngst">>

\* C12: in 2-D and projection mode the translation written for each record
\* is the record's translation in pixels times the record's own pixel size,
\* also when the records of the set have different pixel sizes.
C12_ShiftScaledByOwnPixelSize ==
    (wIn.kind = "particles" /\ wIn.alignType \in {"ALIGN_2D", "ALIGN_PROJ"}
        /\ wpc \in {"rows", "done"}) =>
        \A k \in 1..Len(BuiltRows) :
            \A c \in 1..Len(OriginLabels(wIn.alignType)) :
                Cell(k, OriginLabels(wIn.alignType)[c]) =
                    NScale(ShiftInPixels(wIn.set[k], wIn.alignType)[c],
                           wIn.set[k].ps)

\* the images handed to _getOpticsGroupNumber so far, in call order: the
\* seeding call, then one call per record processed
ImgsMet ==
    <<IF wIn.kind = "particles"
      THEN [wIn.set[1] EXCEPT !.acq = wIn.setAcq]
      ELSE wIn.set[1]>>
    \o SubSeq(wIn.set, 1, wI)

\* the index of the first call made with a group name
FirstCallWith(name) ==
    CHOOSE i \in 1..Len(ImgsMet) :
        /\ GroupNameOf(ImgsMet[i].acq) = name
        /\ \A j \in 1..(i - 1) : GroupNameOf(ImgsMet[j].acq) # name

\* an optics entry stores the acquisition values of an image
StoresFieldsOf(entry, img) ==
    /\ entry["rlnMicrographOriginalPixelSize"] = img.ps
    /\ entry[wSelf.imgLabelPixelSize] = img.ps
    /\ entry["rlnVoltage"] = img.acq.voltage
    /\ entry["rlnSphericalAberration"] = img.acq.cs
    /\ entry["rlnAmplitudeContrast"] = img.acq.contrast
    /\ entry["rlnBeamTiltX"] =
           (IF img.acq.beamTiltX = <<>> THEN 0 ELSE img.acq.beamTiltX[1])
    /\ entry["rlnBeamTiltY"] =
           (IF img.acq.beamTiltY = <<>> THEN 0 ELSE img.acq.beamTiltY[1])
    /\ IF img.acq.mtfFile = <<>>
       THEN "rlnMtfFileName" \notin DOMAIN entry
       ELSE /\ "rlnMtfFileName" \in DOMAIN entry
            /\ entry["rlnMtfFileName"] = img.acq.mtfFile[1]

\* C13: after any sequence of _getOpticsGroupNumber calls in one write pass
\* the optics map holds the ids 1..n with the k-th inserted group having id
\* k, the groups are the names met in first-met order, every call returned
\* the id of its group name, and each entry stores the fields of the first
\* image the calls met with that name, whatever later images with the same
\* name carry.
C13_IdsInOrderFirstSeenWins ==
    wpc \in {"rows", "done", "error"} =>
        /\ \A k \in 1..Len(OpticsEntries) :
              /\ OpticsEntries[k]["rlnOpticsGroup"] = k
              /\ OpticsEntries[k]["rlnOpticsGroupName"] = wSelf.optics.keys[k]
        /\ {wSelf.optics.keys[k] : k \in 1..Len(OpticsEntries)} =
              {GroupNameOf(ImgsMet[i].acq) : i \in 1..Len(ImgsMet)}
        /\ \A j, k \in 1..Len(OpticsEntries) :
              j < k => FirstCallWith(wSelf.optics.keys[j])
                           < FirstCallWith(wSelf.optics.keys[k])
        /\ \A k \in 1..Len(OpticsEntries) :
              StoresFieldsOf(OpticsEntries[k],
                             ImgsMet[FirstCallWith(wSelf.optics.keys[k])])
        /\ \A k \in 1..Len(BuiltRows) :
              Cell(k, "rlnOpticsGroup") =
                  wSelf.optics.val[GroupNameOf(wIn.set[k].acq)]["rlnOpticsGroup"]

\* a pass that has met a known group name again with other acquisition
\* values, and a second name
C13_Witness ==
    /\ wpc = "done"
    /\ Len(OpticsEntries) = 2
    /\ \E i, j \in 1..Len(ImgsMet) :
          /\ i < j
          /\ GroupNameOf(ImgsMet[i].acq) = GroupNameOf(ImgsMet[j].acq)
          /\ ImgsMet[i].acq.voltage # ImgsMet[j].acq.voltage
          /\ ImgsMet[i].acq.mtfFile # ImgsMet[j].acq.mtfFile
    /\ \E k \in 2..Len(BuiltRows) : Cell(k, "rlnOpticsGroup") = 1
    /\ \E k \in 1..Len(BuiltRows) : Cell(k, "rlnOpticsGroup") = 2

\* C14: in writeSetOfParticles every row line written after the header has
\* exactly as many values as the header has columns, and the row dictionary
\* the values are taken from holds the header's labels in the header's order:
\* no record adds a label that is not in the header.
C14_RowsKeepHeaderColumns ==
    (wIn.kind = "particles" /\ wpc \in {"rows", "done", "error"}) =>
        /\ \A k \in 1..Len(MainRows) :
              Len(MainRows[k].cells) = Len(MainColumns)
        /\ wRow.keys = MainColumns

\* the labels under which the k-th written row carries its values: the row
\* dictionary only grows, at its end, so they are a prefix of its keys
LabelsOfRow(k) == SubSeq(wRow.keys, 1, Len(MainRows[k].cells))

RowHas(k, label) == \E c \in 1..Len(LabelsOfRow(k)) : LabelsOfRow(k)[c] = label

\* the value the k-th written row carries under a label it has
RowValue(k, label) == MainRows[k].cells[ColumnOf(LabelsOfRow(k), label)]

\* a record's coordinate names a micrograph
HasMicName(rec) ==
    rec.coord # <<>> /\ (rec.coord[1].micName # "" \/ rec.coord[1].micId # 0)

\* C15: in writeSetOfParticles the row written for a record carries a
\* coordinate only when the record has one, and then the record's own, and a
\* micrograph name only when the record's coordinate names a micrograph:
\* nothing is left over from the previous record in the reused dictionary.
C15_NoCarryOver ==
    (wIn.kind = "particles" /\ wpc \in {"rows", "done", "error"}) =>
        \A k \in 1..Len(MainRows) :
            /\ RowHas(k, "rlnCoordinateX") <=> wIn.set[k].coord # <<>>
            /\ RowHas(k, "rlnCoordinateX") =>
                  /\ RowValue(k, "rlnCoordinateX") = wIn.set[k].coord[1].x
                  /\ RowValue(k, "rlnCoordinateY") = wIn.set[k].coord[1].y
            /\ RowHas(k, "rlnMicrographName") <=> HasMicName(wIn.set[k])

\* "%06d@%s" for a slot below 10
SlotName(k, stack) == "00000" \o ToString(k) \o "@" \o stack

\* C16: when writeSetOfParticles runs with outputStack set, the seeding call
\* converts nothing, the loop converts the k-th record once, into slot k of
\* the output stack, and writes its row with rlnImageName referencing slot k;
\* a finished pass over N records has done N conversions and written N rows.
C16_OutputStackSlots ==
    (wIn.kind = "particles" /\ wIn.outputStack # <<>>
        /\ wpc \in {"rows", "done", "error"}) =>
        /\ Len(wConv) = wI
        /\ Len(MainRows) = wI
        /\ wpc = "done" => Len(MainRows) = Len(wIn.set)
        /\ \A k \in 1..Len(wConv) :
              wConv[k] = [part |-> wIn.set[k].id, index |-> k,
                          stack |-> wIn.outputStack[1]]
        /\ \A k \in 1..Len(MainRows) :
              RowValue(k, "rlnImageName") = SlotName(k, wIn.outputStack[1])

\* a finished pass with an output stack over several records
C16_Witness ==
    /\ wIn.kind = "particles"
    /\ wIn.outputStack # <<>>
    /\ wpc = "done"
    /\ Len(wIn.set) >= 2
    /\ Len(wConv) = Len(wIn.set)
    /\ Len(MainRows) = Len(wIn.set)
    /\ wIn.set[1].loc.index # 1

\* C17: in any write pass every optics-group entry has exactly the label set
\* of the first entry, from which the optics table's columns are created, so
\* no entry flushed into the table has a label outside the columns or lacks
\* one of them.
C17_UniformOpticsLabels ==
    wpc \in {"rows", "done", "error"} =>
        \A k \in 1..Len(OpticsEntries) :
            /\ DOMAIN OpticsEntries[k] = DOMAIN OpticsEntries[1]
            /\ DOMAIN OpticsEntries[k] =
                   {wTables.opticsCols[c] : c \in 1..Len(wTables.opticsCols)}
(***************************************************************************)
(* Properties of the Reader.                                               *)
(***************************************************************************)
ReadStarted == rpc \in {"rows", "done", "error"}

\* the pass ended by an exception raised before the transform handler was
\* called on the row, that is, by rowToCtf
CtfError == rpc = "error" /\ Len(rUsed) = rI

CtfField(label) ==
    CASE label = "rlnCtfMaxResolution" -> "resolution"
      [] label = "rlnCtfFigureOfMerit" -> "fitQuality"
      [] label = "rlnCtfPhaseShift" -> "phaseShift"

\* C7: when the particles block has the three defocus columns but lacks
\* some of rlnCtfMaxResolution, rlnCtfFigureOfMerit and rlnCtfPhaseShift,
\* reading the CTF raises no error, and on every particle read the values
\* of the missing columns are zero.
C7_MissingCtfColumnsAreZero ==
    (ReadStarted /\ HasColumns(rIn.rows[1], DEFOCUS_LABELS)) =>
        /\ ~CtfError
        /\ \A k \in 1..Len(rOut) :
             \A label \in CtfOptional \ DOMAIN rIn.rows[1] :
                rOut[k].ctf[1][CtfField(label)] = Some(0)

\* C8: in every pass of a Reader, the first or a later one, the transform
\* handler applied to each row is the one determined by the pass's alignType
\* and the pass's alignment columns, and every particle read from a file
\* without alignment columns has no transform.
C8_HandlerOfThePass ==
    ReadStarted =>
        /\ \A k \in 1..Len(rUsed) :
              rUsed[k] = HandlerFor(rIn.alignType, rIn.rows[1])
        /\ (DOMAIN rIn.rows[1]) \cap ALIGNMENT_LABELS = {} =>
              \A k \in 1..Len(rOut) : rOut[k].transform = None

(***************************************************************************)
(* Properties of convertBinaryFiles.                                       *)
(***************************************************************************)
LinkOrConvert == bMode \in {"createBinaryLink", "convertStack"}

\* C9: in the link and convert modes, whatever the file set and the order of
\* the visit, no two source files of filesDict have the same output path, at
\* every point of the loop and in the mapping returned.
C9_MappingInjective ==
    (bpc \in {"loop", "returned"} /\ LinkOrConvert) =>
        \A i, j \in 1..Len(bDict) : bDict[i][2] = bDict[j][2] => i = j

\* two files with one base name and a file with the suffixed name of the
\* second have been mapped, the suffix rule applied twice to one of them
C9_Witness ==
    /\ bpc = "returned"
    /\ bMode = "createBinaryLink"
    /\ Len(bDict) = 3
    /\ bDict[1] = <<"in/r3/p_00002.mrc", "out/input/p_00002.mrcs">>
    /\ bDict[2] = <<"in/r1/p.mrc", "out/input/p.mrcs">>
    /\ bDict[3] = <<"in/r2/p.mrc", "out/input/p_00003.mrcs">>

\* C10: a call of convertBinaryFiles on the file set, output directory,
\* extension and forceConvert flag of the call before it returns the same
\* mapping, and leaves no path on the file system that the call before it
\* had not left.
C10_SecondCallSameMappingNoNewEntry ==
    \A k \in 2..Len(bLog) :
        /\ bLog[k].mapping = bLog[k - 1].mapping
        /\ FsPaths(bLog[k].fs) \subseteq FsPaths(bLog[k - 1].fs)

\* C11: for a fixed file set, output directory, extension and forceConvert
\* flag, any two calls of convertBinaryFiles return the same mapping, in
\* whatever orders they visit the files of the set.
C11_MappingIndependentOfOrder ==
    \A j, k \in 1..Len(bLog) :
        bLog[j].mapping = bLog[k].mapping

====
